---------------------------- MODULE Spec2Model ----------------------------
(***************************************************************************)
(* A model of the Group23 Hex agents:                                      *)
(*   - MCTSAgent.py  : TreeNode, MCTS (select / expand / simulate /        *)
(*                     backpropagate, run) and MCTSAgent (make_move,       *)
(*                     update_tree) with the tree retained across turns;   *)
(*   - mcts.py       : the MCTS variant that builds a fresh tree per call  *)
(*                     and also returns the visit-count distribution;      *)
(*   - AlphaZeroAgent.py : make_move and the turn time budgeter            *)
(*                     allowed_time.                                       *)
(* The Board / Tile / Colour classes and agents/Group23/treenode.py are    *)
(* not part of the sources at hand; they are modelled from the             *)
(* specification (see MODEL_MAP.json).                                     *)
(*                                                                         *)
(* Time is counted in ticks: one iteration of the search loop takes one    *)
(* tick and a budget of b seconds is b ticks.                              *)
(***************************************************************************)
EXTENDS Integers, Sequences, FiniteSets, TLC

(***************************************************************************)
(* Bounds of the model.                                                    *)
(***************************************************************************)
\* Board dimension (11 in the program, scaled down).
Size == 2
\* MCTSAgent's turn_length_s is drawn from 0..MaxBudget.
MaxBudget == 4
\* SpecBudget: allowed_time is called with total_turns in 1..MaxTurns and
\* total_time in 0..MaxTime.
MaxTurns == 3
MaxTime == 12
\* AlphaZeroAgent's total_time (300 in the program, scaled down with Size).
TotalTime == 9
\* SpecDeep: MCTSAgent's turn_length_s.
DeepBudget == 7
\* SpecPolicy, SpecRollout: board dimension, the smallest with a bridge.
TemplateSize == 3
\* SpecRollout: the live board the rollout starts from holds at most
\* MaxStones stones.
MaxStones == 1

VARIABLES
    agent,       \* which agent class was constructed: "MCTSAgent" | "AlphaZeroAgent"
    colour,      \* self.colour
    sim_colour,  \* _simulate: current_colour, the mover of the rollout loop
    turn_length, \* MCTSAgent.turn_length (unused by AlphaZeroAgent)
    board,       \* the board handed to make_move
    nodes,       \* arena of TreeNode objects, addressed by index 1..Len(nodes)
    tree,        \* MCTSAgent.tree: an index into nodes, 0 for None
    root,        \* run(): root
    node,        \* run(): node, the result of _select
    result,      \* run(): result, the result of _simulate
    budget,      \* MCTS.turn_length / max_simulation_length of this search, a rational
    elapsed,     \* time.time() - start_time, in ticks
    iterations,  \* run(): iterations
    turn,        \* the turn argument of the current / last make_move
    opp_move,    \* the opp_move argument of the current / last make_move
    ret,         \* the Move returned by the last make_move
    dist,        \* the visit distribution returned by the last mcts.py run
    pc,          \* position of the agent
    bt           \* SpecBudget: the record of the budgeter's calls

vars == <<agent, colour, sim_colour, turn_length, board, nodes, tree, root, node, result,
          budget, elapsed, iterations, turn, opp_move, ret, dist, pc, bt>>

(***************************************************************************)
(* Move, Colour, Tile, Board (external collaborators).                     *)
(***************************************************************************)
None == <<>>

Move(x, y) == <<x, y>>

Colours == {"RED", "BLUE"}

\* Colour.opposite()
Opposite(c) == IF c = "RED" THEN "BLUE" ELSE "RED"

Cells(n) == (0 .. n - 1) \X (0 .. n - 1)

\* Board(size): every tile empty (colour None)
NewBoard(n) == [size |-> n, tiles |-> [c \in Cells(n) |-> "NONE"]]

\* Board.set_tile_colour(x, y, colour): plain assignment, no occupancy check
SetTileColour(b, m, c) == [b EXCEPT !.tiles[m] = c]

\* Tile.I_DISPLACEMENTS / J_DISPLACEMENTS: the six hex neighbours used by
\* the board's own connectivity search
BoardNeighbours(b, m) ==
    { c \in DOMAIN b.tiles :
        <<c[1] - m[1], c[2] - m[2]>> \in
            { <<-1, 0>>, <<-1, 1>>, <<0, 1>>, <<1, 0>>, <<1, -1>>, <<0, -1>> } }

\* Board.DFS_colour: the cells of colour c reachable from the set seen
RECURSIVE Reach(_, _, _)
Reach(b, c, seen) ==
    LET more == { n \in UNION { BoardNeighbours(b, m) : m \in seen } :
                    b.tiles[n] = c /\ n \notin seen }
    IN  IF more = {} THEN seen ELSE Reach(b, c, seen \cup more)

\* Board.has_ended(colour) on a board whose winner is not yet recorded:
\* RED joins row 0 to row size-1, BLUE joins column 0 to column size-1
HasPath(b, c) ==
    LET k     == IF c = "RED" THEN 1 ELSE 2
        start == { m \in DOMAIN b.tiles : m[k] = 0 /\ b.tiles[m] = c }
    IN  \E m \in Reach(b, c, start) : m[k] = b.size - 1

\* Board.get_winner() after has_ended was asked for both colours
GetWinner(b) ==
    IF HasPath(b, "RED") THEN "RED"
    ELSE IF HasPath(b, "BLUE") THEN "BLUE"
    ELSE "NONE"

EmptyCells(b) == { m \in DOMAIN b.tiles : b.tiles[m] = "NONE" }

(***************************************************************************)
(* Utilities (MCTSAgent.py)                                                *)
(***************************************************************************)
\* Utilities.RELATIVE_NEIGHBOURS
RELATIVE_NEIGHBOURS ==
    { <<-1, -1>>, <<-1, 0>>, <<0, -1>>, <<0, 1>>, <<1, 0>>, <<1, 1>> }

\* Utilities.is_within_bounds
is_within_bounds(b, x, y) == 0 <= x /\ x < b.size /\ 0 <= y /\ y < b.size

\* Utilities.get_neighbours: the in-bounds cells at the relative offsets
get_neighbours(b, x, y) ==
    { <<x + o[1], y + o[2]>> : o \in
        { o \in RELATIVE_NEIGHBOURS : is_within_bounds(b, x + o[1], y + o[2]) } }

(***************************************************************************)
(* TreeNode (MCTSAgent.py)                                                 *)
(***************************************************************************)
\* TreeNode.__init__
TreeNode(move, parent) ==
    [move |-> move, parent |-> parent, children |-> <<>>, visits |-> 0, wins |-> 0]

\* the moves of a node's children, in child order
ChildMoves(ns, n) == { ns[ns[n].children[i]].move : i \in 1 .. Len(ns[n].children) }

\* TreeNode.is_fully_expanded
is_fully_expanded(ns, n, legal_moves) ==
    Len(ns[n].children) = Cardinality(legal_moves)

\* TreeNode.add_child: the arena with the new child appended; the child's
\* index is Len(ns) + 1
add_child(ns, n, move) ==
    Append([ns EXCEPT ![n].children = Append(@, Len(ns) + 1)], TreeNode(move, n))


(***************************************************************************)
(* UCT (TreeNode.best_child).  The floating point score                    *)
(*   wins/visits + sqrt(2) * sqrt(log(parent.visits) / visits)             *)
(* is computed in fixed point, in units of 10^-6.  For parent visits up to *)
(* 24 the order (and the ties) of the fixed point scores is that of the    *)
(* floating point scores.                                                  *)
(***************************************************************************)
\* math.log(n) * 10^8 for n = 1..24
LogE8 ==
    << 0, 69314718, 109861229, 138629436, 160943791, 179175947, 194591015,
       207944154, 219722458, 230258509, 239789527, 248490665, 256494936,
       263905733, 270805020, 277258872, 283321334, 289037176, 294443898,
       299573227, 304452244, 309104245, 313549422, 317805383 >>

\* floor(sqrt(a)) by bisection on lo <= sqrt(a) < hi
RECURSIVE IsqrtIn(_, _, _)
IsqrtIn(a, lo, hi) ==
    IF hi - lo <= 1 THEN lo
    ELSE LET mid == (lo + hi) \div 2
         IN  IF mid * mid <= a THEN IsqrtIn(a, mid, hi) ELSE IsqrtIn(a, lo, mid)

Isqrt(a) == IsqrtIn(a, 0, 46341)

\* the greatest d in lo .. hi - 1 with (100 * s0 + d)^2 <= 10000 * s0^2 + r,
\* by bisection
RECURSIVE IsqrtE2In(_, _, _, _)
IsqrtE2In(s0, r, lo, hi) ==
    IF hi - lo <= 1 THEN lo
    ELSE LET mid == (lo + hi) \div 2
         IN  IF 200 * s0 * mid + mid * mid <= r
             THEN IsqrtE2In(s0, r, mid, hi) ELSE IsqrtE2In(s0, r, lo, mid)

\* floor(sqrt(a) * 100): two more decimal digits of the root
IsqrtE2(a) ==
    LET s0 == Isqrt(a)
    IN  100 * s0 + IsqrtE2In(s0, 10000 * (a - s0 * s0), 0, 100)

\* the key of best_child's max, times 10^6
UCTScore(wins, visits, parent_visits) ==
    (wins * 1000000) \div visits + IsqrtE2((2 * LogE8[parent_visits]) \div visits)

\* Python's max(seq, key) over the keys in sequence order: the first
\* position holding the greatest key
FirstMax(keys) ==
    CHOOSE i \in 1 .. Len(keys) :
        /\ \A j \in 1 .. Len(keys) : keys[j] <= keys[i]
        /\ \A j \in 1 .. (i - 1) : keys[j] < keys[i]

\* whether best_child evaluates without raising: a child to pick, no
\* division by zero and no log(0)
best_child_defined(ns, n) ==
    /\ ns[n].children # <<>>
    /\ ns[n].visits >= 1
    /\ \A i \in 1 .. Len(ns[n].children) : ns[ns[n].children[i]].visits >= 1

\* TreeNode.best_child
best_child(ns, n) ==
    LET cs == ns[n].children
        score == [i \in 1 .. Len(cs) |->
                    UCTScore(ns[cs[i]].wins, ns[cs[i]].visits, ns[n].visits)]
    IN  cs[FirstMax(score)]

(***************************************************************************)
(* MCTS (MCTSAgent.py)                                                     *)
(***************************************************************************)
\* _get_legal_moves that returns every tile, coloured or not
all_tiles(b) == { Move(m[1], m[2]) : m \in DOMAIN b.tiles }

\* MCTS._get_legal_moves: the moves of the tiles that are neither RED nor
\* BLUE (the ValueError on an empty list is raised by the callers below)
_get_legal_moves(b) ==
    { Move(m[1], m[2]) : m \in { t \in DOMAIN b.tiles : b.tiles[t] # "RED" /\ b.tiles[t] # "BLUE" } }

\* MCTS.is_bridge
is_bridge(n1, n2, move) ==
    LET Abs(i) == IF i < 0 THEN -i ELSE i
    IN  /\ Abs(n1[1] - n2[1]) = 2
        /\ Abs(n1[2] - n2[2]) = 2
        /\ move = <<(n1[1] + n2[1]) \div 2, (n1[2] + n2[2]) \div 2>>

\* MCTS.completes_wheel
completes_wheel(b, x, y, c) ==
    Cardinality({ n \in get_neighbours(b, x, y) : b.tiles[n] = c }) >= 3

\* MCTS.savebridge: the legal moves that secure a bridge or complete a wheel
savebridge(b, c, legal_moves) ==
    { move \in legal_moves :
        \/ \E n1, n2 \in get_neighbours(b, move[1], move[2]) :
              /\ n1 # n2
              /\ b.tiles[n1] = c
              /\ b.tiles[n2] = c
              /\ is_bridge(n1, n2, move)
        \/ completes_wheel(b, move[1], move[2], c) }

\* _default_policy that draws from all the legal moves, templates or not
default_policy_ignores_savebridge(b, c, legal_moves) == legal_moves

\* MCTS._default_policy: the moves random.choice may return
_default_policy(b, c, legal_moves) ==
    LET savebridge_moves == savebridge(b, c, legal_moves)
    IN  IF savebridge_moves # {} THEN savebridge_moves ELSE legal_moves

\* The outcomes of the random playout of MCTS._simulate from simulation
\* board b with current_colour to move: the result 1, 0, or -1 when
\* _get_legal_moves raises its ValueError on a full board, each with the
\* simulation board the playout has left
RECURSIVE Playout(_, _, _)
Playout(b, current_colour, me) ==
    IF HasPath(b, current_colour) \/ HasPath(b, Opposite(current_colour))
    THEN { [result |-> IF GetWinner(b) = me THEN 1 ELSE 0, board |-> b] }
    ELSE LET legal_moves == _get_legal_moves(b)
         IN  IF legal_moves = {} THEN { [result |-> -1, board |-> b] }
             ELSE UNION { Playout(SetTileColour(b, move, current_colour),
                                  Opposite(current_colour), me) :
                          move \in _default_policy(b, current_colour, legal_moves) }

\* the rollout playing on the live board itself instead of a copy
LiveBoard_shared(b, simulation_board) == simulation_board

\* simulation_board = deepcopy(self.board): the copy is independent, the
\* live board b is what it was whatever the rollout did to simulation_board
LiveBoard(b, simulation_board) == b

\* the first lines of MCTS._simulate: the simulation board, with node.move
\* played by self.colour, and current_colour, the first mover of the loop
SimulationStart(b, ns, n, me) ==
    [board |-> SetTileColour(b, ns[n].move, me), current_colour |-> Opposite(me)]

\* MCTS._simulate: the outcomes for node n (result -1: it raises, as it
\* does on node.move.x when the node carries no move)
_simulate(b, ns, n, me) ==
    IF ns[n].move = None THEN { [result |-> -1, board |-> b] }
    ELSE LET start == SimulationStart(b, ns, n, me)
         IN  Playout(start.board, start.current_colour, me)

\* _backpropagate without the inversion of the result between levels
RECURSIVE backpropagate_no_inversion(_, _, _)
backpropagate_no_inversion(ns, n, r) ==
    IF n = 0 THEN ns
    ELSE backpropagate_no_inversion(
             [ns EXCEPT ![n].visits = @ + 1, ![n].wins = @ + r], ns[n].parent, r)

\* _backpropagate that adds the result to wins and leaves visits alone
RECURSIVE backpropagate_wins_only(_, _, _)
backpropagate_wins_only(ns, n, r) ==
    IF n = 0 THEN ns
    ELSE backpropagate_wins_only([ns EXCEPT ![n].wins = @ + r], ns[n].parent, 1 - r)

\* _backpropagate that starts at the parent of the node
RECURSIVE backpropagate_parents_only(_, _, _)
backpropagate_parents_only(ns, n, r) ==
    IF n = 0 \/ ns[n].parent = 0 THEN ns
    ELSE backpropagate_parents_only(
             [ns EXCEPT ![ns[n].parent].visits = @ + 1, ![ns[n].parent].wins = @ + (1 - r)],
             ns[n].parent, 1 - r)

\* MCTS._backpropagate
RECURSIVE _backpropagate(_, _, _)
_backpropagate(ns, n, r) ==
    IF n = 0 THEN ns
    ELSE _backpropagate([ns EXCEPT ![n].visits = @ + 1, ![n].wins = @ + r],
                        ns[n].parent, 1 - r)

\* the while loop of MCTS._select: the node the descent stops at, 0 when
\* best_child raises on the way
RECURSIVE Descend(_, _, _)
Descend(ns, n, legal_moves) ==
    IF ~is_fully_expanded(ns, n, legal_moves) THEN n
    ELSE IF ~best_child_defined(ns, n) THEN 0
    ELSE Descend(ns, best_child(ns, n), legal_moves)

\* _expand that draws from all the legal moves, with a child or not
expand_any_legal_move(b, ns, n) ==
    { [nodes |-> add_child(ns, n, new_move), node |-> Len(ns) + 1] :
        new_move \in _get_legal_moves(b) }

\* MCTS._expand: the outcomes of random.choice, each the arena and the node
\* returned
_expand(b, ns, n) ==
    LET legal_moves == _get_legal_moves(b)
        unvisited_moves == legal_moves \ ChildMoves(ns, n)
    IN  IF unvisited_moves # {}
        THEN { [nodes |-> add_child(ns, n, new_move), node |-> Len(ns) + 1] :
                 new_move \in unvisited_moves }
        ELSE { [nodes |-> ns, node |-> n] }

\* MCTS._select: the outcomes, node 0 when an exception is raised
_select(b, ns, n) ==
    LET legal_moves == _get_legal_moves(b)
        stop == IF legal_moves = {} THEN 0 ELSE Descend(ns, n, legal_moves)
    IN  IF stop = 0 THEN { [nodes |-> ns, node |-> 0] } ELSE _expand(b, ns, stop)

\* run returning the root it was given instead of the child
returns_root(ns, n) == n

\* the last line of MCTS.run: max(root.children, key=lambda child: child.visits)
most_visited(ns, n) ==
    LET cs == ns[n].children
    IN  cs[FirstMax([i \in 1 .. Len(cs) |-> ns[cs[i]].visits])]

(***************************************************************************)
(* MCTSAgent                                                               *)
(***************************************************************************)
\* update_tree that never looks for the child: always a fresh node
update_tree_always_fresh(ns, t, move) ==
    [nodes |-> Append(ns, TreeNode(move, t)), tree |-> Len(ns) + 1]

\* update_tree that keeps the old tree when the move has no child
update_tree_keeps_tree(ns, t, move) ==
    LET cs == ns[t].children
        hits == { i \in 1 .. Len(cs) : ns[cs[i]].move = move }
    IN  IF hits # {}
        THEN [nodes |-> ns, tree |-> cs[CHOOSE i \in hits : \A j \in hits : i <= j]]
        ELSE [nodes |-> ns, tree |-> t]

\* MCTSAgent.update_tree: the arena and the node returned
update_tree(ns, t, move) ==
    LET cs == ns[t].children
        hits == { i \in 1 .. Len(cs) : ns[cs[i]].move = move }
    IN  IF hits # {}
        THEN [nodes |-> ns, tree |-> cs[CHOOSE i \in hits : \A j \in hits : i <= j]]
        ELSE [nodes |-> Append(ns, TreeNode(move, t)), tree |-> Len(ns) + 1]

(***************************************************************************)
(* The game around the agent: RED moves first, the two players alternate,  *)
(* make_move is called on the agent's turns while nobody has won, with     *)
(* the opponent's move already on the board.  Each input is the turn       *)
(* number, the opponent's move and the board.                              *)
(***************************************************************************)
Inputs ==
    IF turn = 0 /\ colour = "RED"
    THEN { [turn |-> 1, opp_move |-> None, board |-> board] }
    ELSE { in \in { [turn |-> turn + 2, opp_move |-> Move(m[1], m[2]),
                     board |-> SetTileColour(board, m, Opposite(colour))] :
                    m \in EmptyCells(board) } :
           GetWinner(in.board) = "NONE" }

Playing == pc = "idle" /\ GetWinner(board) = "NONE"

\* the loop condition of MCTS.run: time.time() - start_time < self.turn_length
InBudget == elapsed * budget.den < budget.num

\* MCTSAgent.make_move up to the construction of MCTS, and the first two
\* lines of MCTS.run
MakeMove ==
    /\ Playing
    /\ agent = "MCTSAgent"
    /\ \E in \in Inputs :
        LET ns0 == IF tree = 0 THEN Append(nodes, TreeNode(None, 0)) ELSE nodes
            t0  == IF tree = 0 THEN Len(nodes) + 1 ELSE tree
            upd == IF in.opp_move # None
                   THEN update_tree(ns0, t0, in.opp_move)
                   ELSE [nodes |-> ns0, tree |-> t0]
        IN  /\ turn' = in.turn
            /\ opp_move' = in.opp_move
            /\ nodes' = upd.nodes
            /\ tree' = upd.tree
            /\ board' = IF in.opp_move # None
                        THEN SetTileColour(in.board, in.opp_move, Opposite(colour))
                        ELSE in.board
            /\ root' = upd.tree
    /\ budget' = [num |-> turn_length, den |-> 1]
    /\ elapsed' = 0
    /\ iterations' = 0
    /\ pc' = "loop"
    /\ UNCHANGED <<agent, colour, sim_colour, turn_length, node, result, ret, dist, bt>>

\* MCTS.run, loop body: node = self._select(root)
Select ==
    /\ pc = "loop"
    /\ agent = "MCTSAgent"
    /\ InBudget
    /\ \E out \in _select(board, nodes, root) :
        /\ nodes' = out.nodes
        /\ node' = out.node
        /\ pc' = IF out.node = 0 THEN "error" ELSE "simulate"
    /\ UNCHANGED <<agent, colour, sim_colour, turn_length, board, tree, root, result, budget,
                   elapsed, iterations, turn, opp_move, ret, dist, bt>>

\* MCTS.run, loop body: result = self._simulate(node)
Simulate ==
    /\ pc = "simulate"
    /\ agent = "MCTSAgent"
    /\ \E out \in _simulate(board, nodes, node, colour) :
        /\ result' = out.result
        /\ board' = LiveBoard(board, out.board)
        /\ pc' = IF out.result = -1 THEN "error" ELSE "backprop"
    /\ UNCHANGED <<agent, colour, sim_colour, turn_length, nodes, tree, root, node,
                   budget, elapsed, iterations, turn, opp_move, ret, dist, bt>>

\* MCTS.run, loop body: self._backpropagate(node, result); the iteration
\* took one tick
Backpropagate ==
    /\ pc = "backprop"
    /\ agent = "MCTSAgent"
    /\ nodes' = _backpropagate(nodes, node, result)
    /\ iterations' = iterations + 1
    /\ elapsed' = elapsed + 1
    /\ pc' = "loop"
    /\ UNCHANGED <<agent, colour, sim_colour, turn_length, board, tree, root, node, result,
                   budget, turn, opp_move, ret, dist, bt>>

\* MCTS.run after the loop, and self.tree = mcts.run(self.tree): max raises
\* ValueError on an empty child list; the locals node and result of run
\* are gone
BestChild ==
    /\ pc = "loop"
    /\ agent = "MCTSAgent"
    /\ ~InBudget
    /\ IF nodes[root].children = <<>>
       THEN pc' = "error" /\ tree' = tree
       ELSE pc' = "chosen" /\ tree' = most_visited(nodes, root)
    /\ node' = 0
    /\ result' = 0
    /\ UNCHANGED <<agent, colour, sim_colour, turn_length, board, nodes, root,
                   budget, elapsed, iterations, turn, opp_move, ret, dist, bt>>

\* the end of MCTSAgent.make_move: the move is put on the board and
\* returned; the game ends when the cell was not empty
Return ==
    /\ pc = "chosen"
    /\ agent = "MCTSAgent"
    /\ board' = SetTileColour(board, nodes[tree].move, colour)
    /\ ret' = nodes[tree].move
    /\ pc' = IF board.tiles[nodes[tree].move] = "NONE" THEN "idle" ELSE "illegal"
    /\ UNCHANGED <<agent, colour, sim_colour, turn_length, nodes, tree, root, node, result,
                   budget, elapsed, iterations, turn, opp_move, dist, bt>>

(***************************************************************************)
(* Turn Time Budgeter (AlphaZeroAgent.allowed_time), in exact rational     *)
(* arithmetic: decay_rate = 0.97 = DecayNum / DecayDen, and the weights    *)
(* decay_rate ** i of range(total_turns) are kept over the common          *)
(* denominator DecayDen ** (total_turns - 1).                              *)
(***************************************************************************)
DecayNum == 97
DecayDen == 100

RECURSIVE Pow(_, _)
Pow(b, e) == IF e = 0 THEN 1 ELSE b * Pow(b, e - 1)

\* the weights in growing order
Weights_reversed(total_turns) ==
    [ k \in 1 .. total_turns |->
        Pow(DecayNum, total_turns - k) * Pow(DecayDen, k - 1) ]

\* weights = [decay_rate ** i for i in range(total_turns)], 1-indexed here
Weights(total_turns) ==
    [ k \in 1 .. total_turns |->
        Pow(DecayNum, k - 1) * Pow(DecayDen, total_turns - k) ]

RECURSIVE SumSeq(_)
SumSeq(q) == IF q = <<>> THEN 0 ELSE Head(q) + SumSeq(Tail(q))

\* allowed_time without the division by the total weight
allowed_time_unnormalised(turn_number, total_turns, total_time) ==
    [num |-> Weights(total_turns)[turn_number] * total_time,
     den |-> Pow(DecayDen, total_turns - 1)]

\* AlphaZeroAgent.allowed_time, for 1 <= turn_number <= total_turns: the
\* rational (turn_weight / total_weight) * total_time
allowed_time(turn_number, total_turns, total_time) ==
    LET weights == Weights(total_turns)
        total_weight == SumSeq(weights)
        turn_weight == weights[turn_number]
    IN  [num |-> turn_weight * total_time, den |-> total_weight]

\* the default total_turns of allowed_time: one turn per cell of the board
TotalTurns == Size * Size

\* the budget taken from self.turn_length, whatever the turn
AZBudget_turn_length(t) == [num |-> turn_length, den |-> 1]

\* AlphaZeroAgent.make_move: allowed_time = self.allowed_time(turn_number=turn)
AZBudget(t) == allowed_time(t, TotalTurns, TotalTime)

(***************************************************************************)
(* TreeNode of agents/Group23/treenode.py, as mcts.py uses it: a node      *)
(* caches the board of its state, the player to move there and a           *)
(* candidate move list.                                                    *)
(***************************************************************************)
AZTreeNode(move, parent, b, player) ==
    [move |-> move, parent |-> parent, children |-> <<>>, visits |-> 0, wins |-> 0,
     board |-> b, player |-> player, moves |-> {}]

AZ_add_child(ns, n, move) ==
    Append([ns EXCEPT ![n].children = Append(@, Len(ns) + 1)],
           AZTreeNode(move, n, SetTileColour(ns[n].board, move, ns[n].player),
                      Opposite(ns[n].player)))

\* true iff every candidate move already has a matching child
AZ_is_fully_expanded(ns, n, moves) == moves \subseteq ChildMoves(ns, n)

\* the child maximizing the UCT score, the first of them on a tie
AZ_best_child(ns, n) ==
    LET cs == ns[n].children
        score == [i \in 1 .. Len(cs) |->
                    UCTScore(ns[cs[i]].wins, ns[cs[i]].visits, ns[n].visits)]
    IN  cs[FirstMax(score)]

(***************************************************************************)
(* MCTS (mcts.py)                                                          *)
(***************************************************************************)
\* MCTS.get_all_moves
get_all_moves(b) == { Move(m[1], m[2]) : m \in { t \in DOMAIN b.tiles : b.tiles[t] = "NONE" } }

\* MCTS.get_heuristic_moves
get_heuristic_moves(ns, n) ==
    IF Cardinality(ns[n].moves) = 0 THEN get_all_moves(ns[n].board) ELSE ns[n].moves

\* the playout of mcts.py's MCTS._simulate: _default_policy raises (result
\* -1) on an empty move list and draws from all the moves otherwise
RECURSIVE AZ_Playout(_, _, _)
AZ_Playout(b, current_colour, me) ==
    IF HasPath(b, current_colour) \/ HasPath(b, Opposite(current_colour))
    THEN { [result |-> IF GetWinner(b) = me THEN 1 ELSE 0, board |-> b] }
    ELSE LET moves == get_all_moves(b)
         IN  IF moves = {} THEN { [result |-> -1, board |-> b] }
             ELSE UNION { AZ_Playout(SetTileColour(b, move, current_colour),
                                     Opposite(current_colour), me) :
                          move \in moves }

\* mcts.py's MCTS._simulate
AZ_simulate(ns, n, me) == AZ_Playout(ns[n].board, Opposite(me), me)

\* the while loop of mcts.py's MCTS._select, 0 when best_child raises
RECURSIVE AZ_Descend(_, _, _)
AZ_Descend(ns, n, moves) ==
    IF ~AZ_is_fully_expanded(ns, n, moves) THEN n
    ELSE IF ~best_child_defined(ns, n) THEN 0
    ELSE AZ_Descend(ns, AZ_best_child(ns, n), moves)

\* mcts.py's MCTS._expand
AZ_expand(ns, n) ==
    LET moves == get_heuristic_moves(ns, n)
        unvisited_moves == moves \ ChildMoves(ns, n)
    IN  IF unvisited_moves # {}
        THEN { [nodes |-> AZ_add_child(ns, n, new_move), node |-> Len(ns) + 1] :
                 new_move \in unvisited_moves }
        ELSE { [nodes |-> ns, node |-> n] }

\* mcts.py's MCTS._select
AZ_select(ns, n) ==
    LET stop == AZ_Descend(ns, n, get_heuristic_moves(ns, n))
    IN  IF stop = 0 THEN { [nodes |-> ns, node |-> 0] } ELSE AZ_expand(ns, stop)

\* mcts.py's MCTS.run, the choice of best_child:
\* max(root.children, key=lambda child: child.wins / child.visits)
AZ_run_best_child(ns, n) ==
    LET cs == ns[n].children
        \* wins / visits of the i-th child is greater than that of the j-th
        Greater(i, j) ==
            ns[cs[i]].wins * ns[cs[j]].visits > ns[cs[j]].wins * ns[cs[i]].visits
    IN  cs[CHOOSE i \in 1 .. Len(cs) :
              /\ \A j \in 1 .. Len(cs) : ~Greater(j, i)
              /\ \A j \in 1 .. (i - 1) : Greater(i, j)]

\* MCTS._count_visits_DFS from the i-th child of node n on: the counts d
\* with the visits of every node below n added at the cell of its move
RECURSIVE _count_visits_DFS(_, _, _, _)
_count_visits_DFS(ns, n, i, d) ==
    IF i > Len(ns[n].children) THEN d
    ELSE LET child == ns[n].children[i]
             d1 == [d EXCEPT ![ns[child].move] = @ + ns[child].visits]
         IN  _count_visits_DFS(ns, n, i + 1, _count_visits_DFS(ns, child, 1, d1))

\* MCTS._get_visit_count_distribution: every count over total_visits (the
\* division raises on total_visits = 0: the result is then <<>>)
_get_visit_count_distribution(ns, n) ==
    LET zero == [c \in Cells(Size) |-> 0]
        distribution_board == _count_visits_DFS(ns, n, 1, zero)
        RECURSIVE Total(_)
        Total(S) == IF S = {} THEN 0
                    ELSE LET c == CHOOSE c \in S : TRUE
                         IN  distribution_board[c] + Total(S \ {c})
        total_visits == Total(Cells(Size))
    IN  IF total_visits = 0 THEN <<>>
        ELSE [c \in Cells(Size) |-> [num |-> distribution_board[c], den |-> total_visits]]

(***************************************************************************)
(* AlphaZeroAgent                                                          *)
(***************************************************************************)
\* AlphaZeroAgent.make_move up to mcts.run, and MCTS.run up to its loop:
\* a fresh tree whose root holds the board
AZMakeMove ==
    /\ Playing
    /\ agent = "AlphaZeroAgent"
    /\ \E in \in Inputs :
        /\ turn' = in.turn
        /\ opp_move' = in.opp_move
        /\ board' = in.board
        /\ budget' = AZBudget(in.turn)
        /\ nodes' = << AZTreeNode(None, 0, in.board, colour) >>
    /\ root' = 1
    /\ elapsed' = 0
    /\ iterations' = 0
    /\ pc' = "loop"
    /\ UNCHANGED <<agent, colour, sim_colour, turn_length, tree, node, result, ret, dist, bt>>

\* mcts.py MCTS.run, loop body: node = self._select(root)
AZSelect ==
    /\ pc = "loop"
    /\ agent = "AlphaZeroAgent"
    /\ InBudget
    /\ \E out \in AZ_select(nodes, root) :
        /\ nodes' = out.nodes
        /\ node' = out.node
        /\ pc' = IF out.node = 0 THEN "error" ELSE "simulate"
    /\ UNCHANGED <<agent, colour, sim_colour, turn_length, board, tree, root, result, budget,
                   elapsed, iterations, turn, opp_move, ret, dist, bt>>

\* mcts.py MCTS.run, loop body: result = self._simulate(node)
AZSimulate ==
    /\ pc = "simulate"
    /\ agent = "AlphaZeroAgent"
    /\ \E out \in AZ_simulate(nodes, node, colour) :
        /\ result' = out.result
        /\ board' = LiveBoard(board, out.board)
        /\ pc' = IF out.result = -1 THEN "error" ELSE "backprop"
    /\ UNCHANGED <<agent, colour, sim_colour, turn_length, nodes, tree, root, node,
                   budget, elapsed, iterations, turn, opp_move, ret, dist, bt>>

\* mcts.py MCTS.run, loop body: self._backpropagate(node, result)
AZBackpropagate ==
    /\ pc = "backprop"
    /\ agent = "AlphaZeroAgent"
    /\ nodes' = _backpropagate(nodes, node, result)
    /\ iterations' = iterations + 1
    /\ elapsed' = elapsed + 1
    /\ pc' = "loop"
    /\ UNCHANGED <<agent, colour, sim_colour, turn_length, board, tree, root, node, result,
                   budget, turn, opp_move, ret, dist, bt>>

\* mcts.py MCTS.run after the loop and the return of
\* AlphaZeroAgent.make_move; the game then puts the move on the board
AZReturn ==
    /\ pc = "loop"
    /\ agent = "AlphaZeroAgent"
    /\ ~InBudget
    /\ IF nodes[root].children = <<>>
       THEN pc' = "error" /\ UNCHANGED <<ret, dist, board>>
       ELSE LET best == AZ_run_best_child(nodes, root)
            IN  /\ dist' = _get_visit_count_distribution(nodes, root)
                /\ ret' = nodes[best].move
                /\ board' = SetTileColour(board, nodes[best].move, colour)
                /\ pc' = IF board.tiles[nodes[best].move] = "NONE"
                         THEN "idle" ELSE "illegal"
    /\ node' = 0
    /\ result' = 0
    /\ UNCHANGED <<agent, colour, sim_colour, turn_length, nodes, tree, root,
                   budget, elapsed, iterations, turn, opp_move, bt>>

\* the opponent completes its path: the game is over
OpponentWins ==
    /\ Playing
    /\ turn # 0 \/ colour = "BLUE"
    /\ \E m \in EmptyCells(board) :
        /\ GetWinner(SetTileColour(board, m, Opposite(colour))) # "NONE"
        /\ board' = SetTileColour(board, m, Opposite(colour))
    /\ pc' = "over"
    /\ UNCHANGED <<agent, colour, sim_colour, turn_length, nodes, tree, root, node, result,
                   budget, elapsed, iterations, turn, opp_move, ret, dist, bt>>

Init ==
    /\ agent \in {"MCTSAgent", "AlphaZeroAgent"}
    /\ colour \in Colours
    /\ sim_colour = "NONE"
    /\ turn_length \in 0 .. MaxBudget
    /\ board = NewBoard(Size)
    /\ nodes = <<>>
    /\ tree = 0
    /\ root = 0
    /\ node = 0
    /\ result = 0
    /\ budget = [num |-> 0, den |-> 1]
    /\ elapsed = 0
    /\ iterations = 0
    /\ turn = 0
    /\ opp_move = None
    /\ ret = None
    /\ dist = <<>>
    /\ pc = "idle"
    /\ bt = <<>>

Next ==
    \/ MakeMove
    \/ Select
    \/ Simulate
    \/ Backpropagate
    \/ BestChild
    \/ Return
    \/ AZMakeMove
    \/ AZSelect
    \/ AZSimulate
    \/ AZBackpropagate
    \/ AZReturn
    \/ OpponentWins

Spec == Init /\ [][Next]_vars

(***************************************************************************)
(* The budgeter on its own: allowed_time is called for the turns 1, 2, ... *)
(* of a game of bt.total_turns turns and bt.total_time seconds; bt.times   *)
(* holds what it returned.                                                 *)
(***************************************************************************)
InitBudget ==
    /\ bt \in [ total_turns : 1 .. MaxTurns, total_time : 0 .. MaxTime, times : {<<>>} ]
    /\ agent = "AlphaZeroAgent"
    /\ colour = "RED"
    /\ sim_colour = "NONE"
    /\ turn_length = 0
    /\ board = NewBoard(Size)
    /\ nodes = <<>>
    /\ tree = 0
    /\ root = 0
    /\ node = 0
    /\ result = 0
    /\ budget = [num |-> 0, den |-> 1]
    /\ elapsed = 0
    /\ iterations = 0
    /\ turn = 0
    /\ opp_move = None
    /\ ret = None
    /\ dist = <<>>
    /\ pc = "budget"

AllowedTime ==
    /\ pc = "budget"
    /\ Len(bt.times) < bt.total_turns
    /\ bt' = [bt EXCEPT !.times =
                Append(@, allowed_time(Len(bt.times) + 1, bt.total_turns, bt.total_time))]
    /\ UNCHANGED <<agent, colour, sim_colour, turn_length, board, nodes, tree, root, node, result,
                   budget, elapsed, iterations, turn, opp_move, ret, dist, pc>>

NextBudget == AllowedTime

SpecBudget == InitBudget /\ [][NextBudget]_vars

(***************************************************************************)
(* A game of MCTSAgent as the second player with a budget long enough for  *)
(* the first search to grow the tree three levels below its root, so that  *)
(* the later turns reuse nodes that already have children.                 *)
(***************************************************************************)
InitDeep ==
    /\ agent = "MCTSAgent"
    /\ colour = "BLUE"
    /\ sim_colour = "NONE"
    /\ turn_length = DeepBudget
    /\ board = NewBoard(Size)
    /\ nodes = <<>>
    /\ tree = 0
    /\ root = 0
    /\ node = 0
    /\ result = 0
    /\ budget = [num |-> 0, den |-> 1]
    /\ elapsed = 0
    /\ iterations = 0
    /\ turn = 0
    /\ opp_move = None
    /\ ret = None
    /\ dist = <<>>
    /\ pc = "idle"
    /\ bt = <<>>

NextDeep ==
    \/ MakeMove
    \/ Select
    \/ Simulate
    \/ Backpropagate
    \/ BestChild
    \/ Return
    \/ OpponentWins

SpecDeep == InitDeep /\ [][NextDeep]_vars

(***************************************************************************)
(* The rollout policy on its own: _default_policy is called for            *)
(* sim_colour on any board that has an empty cell, with the legal moves of *)
(* that board; ret holds the move it drew.                                 *)
(***************************************************************************)
\* every colouring of the n x n board
Boards(n) == [size : {n}, tiles : [Cells(n) -> {"NONE", "RED", "BLUE"}]]

InitPolicy ==
    /\ board \in { b \in Boards(TemplateSize) : _get_legal_moves(b) # {} }
    /\ sim_colour \in Colours
    /\ agent = "MCTSAgent"
    /\ colour = "RED"
    /\ turn_length = 0
    /\ nodes = <<>>
    /\ tree = 0
    /\ root = 0
    /\ node = 0
    /\ result = 0
    /\ budget = [num |-> 0, den |-> 1]
    /\ elapsed = 0
    /\ iterations = 0
    /\ turn = 0
    /\ opp_move = None
    /\ ret = None
    /\ dist = <<>>
    /\ pc = "policy"
    /\ bt = <<>>

\* move = self._default_policy(simulation_board, current_colour, legal_moves)
DefaultPolicy ==
    /\ pc = "policy"
    /\ \E move \in _default_policy(board, sim_colour, _get_legal_moves(board)) :
          ret' = move
    /\ pc' = "policy_done"
    /\ UNCHANGED <<agent, colour, sim_colour, turn_length, board, nodes, tree, root,
                   node, result, budget, elapsed, iterations, turn, opp_move, dist, bt>>

NextPolicy == DefaultPolicy

SpecPolicy == InitPolicy /\ [][NextPolicy]_vars

(***************************************************************************)
(* The rollout of MCTS._simulate step by step: board is simulation_board,  *)
(* a copy of a live board nobody has won on with node.move played by       *)
(* self.colour; each step is one pass of the while loop.                   *)
(***************************************************************************)
\* the live boards a rollout starts from
LiveBoards ==
    { l \in Boards(TemplateSize) :
        /\ Cardinality(EmptyCells(l)) >= TemplateSize * TemplateSize - MaxStones
        /\ GetWinner(l) = "NONE" }

InitRollout ==
    /\ colour \in Colours
    /\ sim_colour = Opposite(colour)
    /\ board \in { SetTileColour(b, m, colour) :
                      b \in LiveBoards, m \in Cells(TemplateSize) }
    /\ agent = "MCTSAgent"
    /\ turn_length = 0
    /\ nodes = <<>>
    /\ tree = 0
    /\ root = 0
    /\ node = 0
    /\ result = 0
    /\ budget = [num |-> 0, den |-> 1]
    /\ elapsed = 0
    /\ iterations = 0
    /\ turn = 0
    /\ opp_move = None
    /\ ret = None
    /\ dist = <<>>
    /\ pc = "rollout"
    /\ bt = <<>>

\* the condition of the while loop of _simulate
RolloutContinues ==
    ~HasPath(board, sim_colour) /\ ~HasPath(board, Opposite(sim_colour))

\* one pass of the while loop; _get_legal_moves raises on an empty list
RolloutStep ==
    /\ pc = "rollout"
    /\ RolloutContinues
    /\ LET legal_moves == _get_legal_moves(board)
       IN  IF legal_moves = {}
           THEN pc' = "error" /\ UNCHANGED <<board, sim_colour>>
           ELSE /\ \E move \in _default_policy(board, sim_colour, legal_moves) :
                     board' = SetTileColour(board, move, sim_colour)
                /\ sim_colour' = Opposite(sim_colour)
                /\ pc' = "rollout"
    /\ UNCHANGED <<agent, colour, turn_length, nodes, tree, root, node, result,
                   budget, elapsed, iterations, turn, opp_move, ret, dist, bt>>

\* return 1 if simulation_board.get_winner() == self.colour else 0
RolloutReturn ==
    /\ pc = "rollout"
    /\ ~RolloutContinues
    /\ result' = IF GetWinner(board) = colour THEN 1 ELSE 0
    /\ pc' = "rollout_done"
    /\ UNCHANGED <<agent, colour, sim_colour, turn_length, board, nodes, tree, root,
                   node, budget, elapsed, iterations, turn, opp_move, ret, dist, bt>>

NextRollout ==
    \/ RolloutStep
    \/ RolloutReturn

\* the loop runs on its own: no pass waits for anything
SpecRollout == InitRollout /\ [][NextRollout]_vars /\ WF_vars(NextRollout)

(***************************************************************************)
(* Properties                                                              *)
(***************************************************************************)
Searching == pc \in {"loop", "simulate", "backprop"}

\* the loop of run has ended and the best child is about to be chosen
LoopEnded == pc = "loop" /\ ~InBudget

\* the k-th ancestor of node n (n itself for k = 0), 0 above the top
RECURSIVE Ancestor(_, _, _)
Ancestor(ns, n, k) ==
    IF k = 0 \/ n = 0 THEN n ELSE Ancestor(ns, ns[n].parent, k - 1)

\* c is the first of the children of n with the greatest visit count
FirstMostVisited(ns, n, c) ==
    LET cs == ns[n].children
    IN  \E i \in 1 .. Len(cs) :
            /\ cs[i] = c
            /\ \A j \in 1 .. Len(cs) : ns[cs[j]].visits <= ns[c].visits
            /\ \A j \in 1 .. (i - 1) : ns[cs[j]].visits < ns[c].visits

\* C1: when the loop of MCTS.run has ended, the move chosen is that of the
\* root's child with the highest visit count, the first of them in child
\* order on a tie -- for MCTSAgent.py's run (the child it returns) and for
\* mcts.py's run (the move it returns).
C1_MostVisitedChosen ==
    /\ (agent = "MCTSAgent" /\ pc = "chosen") => FirstMostVisited(nodes, root, tree)
    /\ (agent = "AlphaZeroAgent" /\ pc = "idle" /\ ret # None) =>
          \E c \in 1 .. Len(nodes) :
              FirstMostVisited(nodes, root, c) /\ nodes[c].move = ret

\* C2: _backpropagate(node, r) with r in {0,1} adds 1 to the visits of the
\* k-th ancestor of node, for every k >= 0 up to the top of the tree, and
\* adds r to its wins when k is even and 1 - r when k is odd.
C2_Backpropagate ==
    [][ (pc = "backprop" /\ pc' = "loop") =>
          /\ result \in {0, 1}
          /\ \A k \in 0 .. Len(nodes) :
               LET a == Ancestor(nodes, node, k)
               IN  a # 0 =>
                     /\ nodes'[a].visits = nodes[a].visits + 1
                     /\ nodes'[a].wins = nodes[a].wins
                                         + (IF k % 2 = 0 THEN result ELSE 1 - result) ]_vars

\* a backpropagation has run from a node two levels below the top with
\* result 1
C2_Witness ==
    /\ pc = "loop"
    /\ iterations >= 1
    /\ result = 1
    /\ Ancestor(nodes, node, 2) # 0
    /\ nodes[node].wins >= 1
    /\ nodes[Ancestor(nodes, node, 2)].wins >= 1

\* C3: update_tree(tree, move), when a child of tree has that move, returns
\* that very child (the same node of the arena, no new node) and leaves its
\* visits, wins and children as they were.
C3_ReuseMatchingChild ==
    [][ ( /\ agent = "MCTSAgent"
          /\ pc = "idle"
          /\ pc' = "loop"
          /\ tree # 0
          /\ opp_move' \in ChildMoves(nodes, tree) ) =>
          /\ \E i \in 1 .. Len(nodes[tree].children) : nodes[tree].children[i] = tree'
          /\ nodes[tree'].move = opp_move'
          /\ Len(nodes') = Len(nodes)
          /\ nodes'[tree'] = nodes[tree'] ]_vars

\* the search starts from a reused child: a root that carries the
\* opponent's move and the visits of the earlier search
C3_Witness ==
    /\ agent = "MCTSAgent"
    /\ pc = "loop"
    /\ iterations = 0
    /\ opp_move # None
    /\ nodes[tree].move = opp_move
    /\ nodes[tree].visits >= 1
    /\ nodes[tree].parent # 0

\* C4: update_tree(tree, move), when no child of tree has that move, returns
\* a fresh node carrying the move, with visits = 0, wins = 0 and no
\* children, and this node becomes the retained tree and the root of the
\* search.
C4_FreshNodeForUnseenMove ==
    [][ ( /\ agent = "MCTSAgent"
          /\ pc = "idle"
          /\ pc' = "loop"
          /\ opp_move' # None
          /\ (tree = 0 \/ opp_move' \notin ChildMoves(nodes, tree)) ) =>
          /\ tree' > Len(nodes)
          /\ tree' = Len(nodes')
          /\ nodes'[tree'].move = opp_move'
          /\ nodes'[tree'].visits = 0
          /\ nodes'[tree'].wins = 0
          /\ nodes'[tree'].children = <<>>
          /\ root' = tree'
          /\ \A n \in 1 .. Len(nodes) : nodes'[n] = nodes[n] ]_vars

\* a later turn starts from a fresh node: the opponent's move had no child
\* in the tree kept from the earlier turn
C4_Witness ==
    /\ agent = "MCTSAgent"
    /\ pc = "loop"
    /\ iterations = 0
    /\ turn >= 3
    /\ opp_move # None
    /\ nodes[tree].move = opp_move
    /\ nodes[tree].visits = 0
    /\ nodes[tree].children = <<>>
    /\ nodes[nodes[tree].parent].visits >= 1

\* C5: for every budget, zero included, run completes at least one
\* iteration before it chooses: when the loop has ended the root has a child
\* and the choice does not fail.
C5_AtLeastOneIteration ==
    /\ LoopEnded => (iterations >= 1 /\ nodes[root].children # <<>>)
    /\ pc # "error"

\* C6, state part: in a make_move that received an opponent move, the
\* search runs on the node of that move, which is the retained tree; the
\* node chosen at the end is a child of that root.
C6_SearchOnOpponentNode ==
    (agent = "MCTSAgent" /\ opp_move # None) =>
        /\ Searching => (root = tree /\ nodes[root].move = opp_move)
        /\ pc = "chosen" =>
              /\ nodes[root].move = opp_move
              /\ nodes[tree].parent = root
              /\ \E i \in 1 .. Len(nodes[root].children) : nodes[root].children[i] = tree

\* C6, step part: the tree is advanced before the first iteration, it is
\* not changed while the search runs, and the move returned is the move of
\* the chosen child, which stays the retained tree.
C6_Steps ==
    /\ (pc = "idle" /\ pc' = "loop") => (iterations' = 0 /\ root' = tree')
    /\ (Searching /\ Searching') => (tree' = tree /\ root' = root)
    /\ (pc = "chosen" /\ pc' # "chosen") => (tree' = tree /\ ret' = nodes[tree].move)

\* C6: in every MCTSAgent.make_move call that receives an opponent move the
\* retained tree is first advanced to the node of the opponent's move, the
\* search then runs with that node as its root, and on return the retained
\* tree is the chosen child of that root and the returned Move is that
\* child's move.
C6_MakeMoveOrder ==
    /\ []C6_SearchOnOpponentNode
    /\ [][ (agent = "MCTSAgent" /\ opp_move' # None) => C6_Steps ]_vars

\* make_move has returned the move of a child of the opponent's node after
\* a search of at least one iteration from it
C6_Witness ==
    /\ agent = "MCTSAgent"
    /\ pc = "idle"
    /\ opp_move # None
    /\ iterations >= 1
    /\ ret = nodes[tree].move
    /\ nodes[tree].parent = root
    /\ nodes[root].move = opp_move

\* equality of two rationals with positive denominators
RatEq(p, q) ==
    IF p.den = q.den THEN p.num = q.num ELSE p.num * q.den = q.num * p.den

C8_SumIsTotalTime ==
    (pc = "budget" /\ Len(bt.times) = bt.total_turns) =>
        LET den == bt.times[1].den
        IN  /\ den > 0
            /\ \A i \in 1 .. Len(bt.times) : bt.times[i].den = den
            /\ SumSeq([i \in 1 .. Len(bt.times) |-> bt.times[i].num]) = bt.total_time * den

\* every turn of a game of at least three turns and a positive total time
\* has got its time
C8_Witness ==
    /\ pc = "budget"
    /\ bt.total_turns >= 3
    /\ bt.total_time >= 2
    /\ Len(bt.times) = bt.total_turns

\* C9: allowed_time never increases with the turn index, and with
\* total_time > 0 it decreases strictly from each turn to the next.
C9_Decreasing ==
    pc = "budget" =>
        \A i \in 1 .. (Len(bt.times) - 1) :
            /\ bt.times[i].den = bt.times[i + 1].den
            /\ bt.times[i].den > 0
            /\ bt.times[i].num >= bt.times[i + 1].num
            /\ bt.total_time > 0 => bt.times[i].num > bt.times[i + 1].num

\* three turns of a game with a positive total time have got their times
C9_Witness ==
    /\ pc = "budget"
    /\ bt.total_time >= 1
    /\ Len(bt.times) >= 3

\* the sum of the numerators of the rationals f[c], c in S
RECURSIVE SumNum(_, _)
SumNum(f, S) ==
    IF S = {} THEN 0
    ELSE LET c == CHOOSE c \in S : TRUE IN f[c].num + SumNum(f, S \ {c})

\* C10: the distribution returned by mcts.py's run holds, at the cell of
\* each child of the root, that child's visits over the total visits of the
\* root's children, and 0 at every other cell; the entries sum to 1.
C10_RootChildDistribution ==
    (agent = "AlphaZeroAgent" /\ pc = "idle" /\ ret # None) =>
        LET cs == nodes[root].children
            total == SumSeq([i \in 1 .. Len(cs) |-> nodes[cs[i]].visits])
        IN  /\ \A i \in 1 .. Len(cs) :
                 RatEq(dist[nodes[cs[i]].move], [num |-> nodes[cs[i]].visits, den |-> total])
            /\ \A c \in Cells(Size) :
                 c \notin ChildMoves(nodes, root) => dist[c].num = 0
            /\ \A c \in Cells(Size) : dist[c].den = SumNum(dist, Cells(Size))

\* cell m has two neighbours of colour c on opposite sides of it along the
\* diagonal, two apart in both coordinates with m as their midpoint
BridgeSecuring(b, c, m) ==
    \E n1, n2 \in get_neighbours(b, m[1], m[2]) :
        /\ b.tiles[n1] = c
        /\ b.tiles[n2] = c
        /\ n1[1] - n2[1] \in {-2, 2}
        /\ n1[2] - n2[2] \in {-2, 2}
        /\ n1[1] + n2[1] = 2 * m[1]
        /\ n1[2] + n2[2] = 2 * m[2]

\* cell m has at least three neighbours of colour c
WheelCompleting(b, c, m) ==
    \E n1, n2, n3 \in get_neighbours(b, m[1], m[2]) :
        /\ n1 # n2 /\ n1 # n3 /\ n2 # n3
        /\ b.tiles[n1] = c /\ b.tiles[n2] = c /\ b.tiles[n3] = c

\* C11, the functions: every move savebridge returns is an empty cell; it
\* returns nothing exactly when no empty cell is bridge-securing or
\* wheel-completing for the player to move, as on the empty board; the
\* rollout policy then draws from all the empty cells, and from the moves
\* of savebridge alone when there are some.
C11_PolicySets ==
    pc = "policy" =>
        LET legal_moves == _get_legal_moves(board)
            savebridge_moves == savebridge(board, sim_colour, legal_moves)
            drawn == _default_policy(board, sim_colour, legal_moves)
        IN  /\ savebridge_moves \subseteq EmptyCells(board)
            /\ savebridge_moves = {} <=>
                  \A m \in EmptyCells(board) :
                      ~BridgeSecuring(board, sim_colour, m)
                      /\ ~WheelCompleting(board, sim_colour, m)
            /\ board = NewBoard(TemplateSize) => savebridge_moves = {}
            /\ savebridge_moves = {} => drawn = EmptyCells(board)
            /\ savebridge_moves # {} => drawn = savebridge_moves

RECURSIVE TreeOf(_, _)
TreeOf(ns, r) ==
    {r} \cup UNION { TreeOf(ns, ns[r].children[i]) : i \in 1 .. Len(ns[r].children) }

\* C12: during every search, for every node of the retained tree,
\* is_fully_expanded(node, candidate moves) is true if and only if every
\* candidate move (a legal move of the live board) has a child of the node
\* with that move -- also for nodes whose children date from an earlier
\* turn.
C12_FullyExpandedIffAllCandidates ==
    (agent = "MCTSAgent" /\ Searching) =>
        LET legal_moves == _get_legal_moves(board)
        IN  \A n \in TreeOf(nodes, root) :
                is_fully_expanded(nodes, n, legal_moves)
                    <=> legal_moves \subseteq ChildMoves(nodes, n)

\* C13, state part: no two children of a node carry the same move.
C13_NoDuplicateSiblings ==
    \A n \in 1 .. Len(nodes) :
        \A i, j \in 1 .. Len(nodes[n].children) :
            nodes[nodes[n].children[i]].move = nodes[nodes[n].children[j]].move
                => i = j

\* C13, step part: _select ends in _expand on the node the descent stopped
\* at; when a candidate move has no child there, one node is added, a
\* child of that node for such a move, and returned; otherwise nothing is
\* added and the node itself is returned.
C13_ExpandStep ==
    LET legal_moves == _get_legal_moves(board)
        stop == Descend(nodes, root, legal_moves)
    IN  IF legal_moves \subseteq ChildMoves(nodes, stop)
        THEN nodes' = nodes /\ node' = stop
        ELSE /\ Len(nodes') = Len(nodes) + 1
             /\ node' = Len(nodes')
             /\ nodes'[node'].parent = stop
             /\ nodes'[node'].move \in legal_moves \ ChildMoves(nodes, stop)
             /\ nodes'[stop].children = Append(nodes[stop].children, node')
             /\ \A n \in 1 .. Len(nodes) : n # stop => nodes'[n] = nodes[n]

RECURSIVE Depth(_, _, _)
Depth(ns, r, n) == IF n = r \/ n = 0 THEN 0 ELSE 1 + Depth(ns, r, ns[n].parent)

\* the board b with the moves on the path from node r down to node n
\* played in order, the first by colour me, the colours alternating
RECURSIVE PathBoard(_, _, _, _, _)
PathBoard(b, ns, r, n, me) ==
    IF n = r \/ n = 0 THEN b
    ELSE SetTileColour(PathBoard(b, ns, r, ns[n].parent, me), ns[n].move,
                       IF Depth(ns, r, n) % 2 = 1 THEN me ELSE Opposite(me))

\* C14: the rollout of an iteration starts from the state of the expanded
\* node: the live board with every move on the path from the search root to
\* the node played, colours alternating from the searching agent on, and
\* the first mover of the rollout is the player to move in that state.
C14_RolloutFromNodeState ==
    (agent = "MCTSAgent" /\ pc = "simulate" /\ nodes[node].move # None) =>
        SimulationStart(board, nodes, node, colour) =
            [board |-> PathBoard(board, nodes, root, node, colour),
             current_colour |-> IF Depth(nodes, root, node) % 2 = 1
                                THEN Opposite(colour) ELSE colour]

\* C15, reuse step: the node update_tree returns has no parent.
C15_ReturnsDetached ==
    (agent = "MCTSAgent" /\ pc = "idle" /\ pc' = "loop" /\ opp_move' # None)
        => nodes'[tree'].parent = 0

\* C15, backpropagation step: no node outside the tree of the search root
\* has its visits or wins changed.
C15_BackpropStopsAtRoot ==
    (agent = "MCTSAgent" /\ pc = "backprop" /\ pc' = "loop")
        => \A n \in 1 .. Len(nodes) :
               n \notin TreeOf(nodes, root) =>
                   /\ nodes'[n].visits = nodes[n].visits
                   /\ nodes'[n].wins = nodes[n].wins

\* C15: the node update_tree returns is the root of the retained tree,
\* detached from the discarded tree, and every backpropagation of the
\* searches that follow walks from the expanded node up to that root and
\* stops there: the visits and wins of the old root and of the discarded
\* subtrees never change again.
C15_DetachedRoot ==
    [][ C15_ReturnsDetached /\ C15_BackpropStopsAtRoot ]_vars

\* the nodes best_child is called on by the while loop of _select from
\* node n
RECURSIVE BestChildCalls(_, _, _)
BestChildCalls(ns, n, legal_moves) ==
    IF ~is_fully_expanded(ns, n, legal_moves) THEN {}
    ELSE {n} \cup (IF best_child_defined(ns, n)
                   THEN BestChildCalls(ns, best_child(ns, n), legal_moves)
                   ELSE {})

\* C16: a node with zero visits is never scored by best_child: between the
\* iterations and after every tree-reuse step every child of a node has
\* visits >= 1, and every node that the coming _select calls best_child on
\* has visits >= 1 and children to score, so neither the division by
\* child.visits nor log(self.visits) fails.
C16_NoZeroVisitScored ==
    agent = "MCTSAgent" =>
        /\ pc \in {"idle", "loop", "chosen"} =>
              \A n \in 1 .. Len(nodes) :
                  \A i \in 1 .. Len(nodes[n].children) :
                      nodes[nodes[n].children[i]].visits >= 1
        /\ (pc = "loop" /\ InBudget) =>
              \A n \in BestChildCalls(nodes, root, _get_legal_moves(board)) :
                  /\ nodes[n].visits >= 1
                  /\ best_child_defined(nodes, n)

\* in a search from a reused node, whose only child dates from the turn
\* before, _select is about to call best_child on that node and on its
\* child
C16_Witness ==
    /\ agent = "MCTSAgent"
    /\ pc = "loop"
    /\ InBudget
    /\ turn >= 4
    /\ nodes[root].move = opp_move
    /\ Len(nodes[root].children) = 1
    /\ nodes[root].visits > iterations
    /\ Cardinality(BestChildCalls(nodes, root, _get_legal_moves(board))) >= 2

\* C17, state part: nothing is raised; a full simulation board has a
\* winner; the result returned is 1 exactly when the searching agent's
\* colour has the connecting path and 0 exactly when the opponent has it.
C17_RolloutState ==
    /\ pc # "error"
    /\ (pc = "rollout" /\ EmptyCells(board) = {}) => GetWinner(board) # "NONE"
    /\ pc = "rollout_done" =>
          /\ result \in {0, 1}
          /\ result = 1 <=> HasPath(board, colour)
          /\ result = 0 <=> HasPath(board, Opposite(colour))

\* C17, step part: a pass of the loop is made only while nobody has a
\* path and colours exactly one cell, empty before, for the mover; the
\* return leaves the board as it is.
C17_RolloutPass ==
    /\ (pc = "rollout" /\ pc' = "rollout") =>
          /\ GetWinner(board) = "NONE"
          /\ \E m \in EmptyCells(board) :
                /\ board' = SetTileColour(board, m, sim_colour)
                /\ EmptyCells(board') = EmptyCells(board) \ {m}
          /\ sim_colour' = Opposite(sim_colour)
    /\ (pc = "rollout" /\ pc' = "rollout_done") =>
          /\ GetWinner(board) # "NONE"
          /\ board' = board

\* C17: every rollout started on a live board nobody has won on
\* terminates: each pass colours exactly one empty cell, the loop stops as
\* soon as a player has a connecting path, at the latest on the full
\* board, so 'No legal moves available' is never raised, and the result
\* is 1 exactly when the winner is the searching agent's colour, else 0.
C17_RolloutTerminates ==
    /\ []C17_RolloutState
    /\ [][C17_RolloutPass]_vars
    /\ <>(pc = "rollout_done")

\* a rollout has ended on the full board after an odd number of passes:
\* the opponent's pass on the last empty cell completed its path
C17_Witness ==
    /\ pc = "rollout_done"
    /\ sim_colour = colour
    /\ EmptyCells(board) = {}
    /\ result = 0

\* C18: MCTS.run never modifies the live board: no step of the loop of
\* run (select, simulate with its rollout, backpropagate) and not the
\* choice of the best child changes the colour of a cell of the board
\* make_move passed in.
C18_LiveBoardUntouched ==
    [][ (Searching /\ pc' \in {"loop", "simulate", "backprop", "chosen", "error"})
            => \A c \in Cells(Size) : board'.tiles[c] = board.tiles[c] ]_vars

\* a rollout the agent has won has just been played from a live board on
\* which the agent has no stone yet: the rollout has coloured at least two
\* cells of its copy, and the live board still has them empty
C18_Witness ==
    /\ pc = "backprop"
    /\ result = 1
    /\ \A c \in Cells(Size) : board.tiles[c] # colour
    /\ Cardinality(EmptyCells(board)) >= 3

\* C19: on every turn of a game played through MCTSAgent.make_move the
\* move of the child chosen, which make_move returns, is a cell that is
\* empty on the board at that moment; an occupied cell is never returned.
C19_ReturnsEmptyCell ==
    agent = "MCTSAgent" =>
        /\ pc = "chosen" => board.tiles[nodes[tree].move] = "NONE"
        /\ pc # "illegal"

\* C20, one backpropagation pass: a node of the search tree at odd depth
\* below the root gains a win exactly when the agent won the rollout, a
\* node at even depth >= 2 exactly when the agent lost it (result is 1 when
\* the agent won).
C20_PassKeepsPerspective ==
    (agent = "MCTSAgent" /\ pc = "backprop" /\ pc' = "loop") =>
        \A k \in 0 .. Len(nodes) :
            LET a == Ancestor(nodes, node, k)
                d == Depth(nodes, root, a)
            IN  (a # 0 /\ a \in TreeOf(nodes, root) /\ d >= 1) =>
                    nodes'[a].wins - nodes[a].wins
                        = (IF d % 2 = 1 THEN result ELSE 1 - result)

\* C20: win statistics keep the perspective of the player who made each
\* node's move: through the iterations of a search the wins of a node at
\* odd depth below the search root (a move of the agent) count the passes
\* through it whose rollout the agent won, and the wins of a node at even
\* depth >= 2 (a move of the opponent) the passes whose rollout the agent
\* lost.
C20_WinsPerspective ==
    [][C20_PassKeepsPerspective]_vars

\* C21: after any sequence of search iterations and tree-reuse steps every
\* node of the tree, retained or not, has 0 <= wins <= visits, so the win
\* rate wins / visits that best_child computes for a visited node lies in
\* [0, 1].
C21_WinsWithinVisits ==
    \A n \in 1 .. Len(nodes) :
        /\ 0 <= nodes[n].wins
        /\ nodes[n].wins <= nodes[n].visits

\* a search runs from a node of a later turn while the tree holds a node
\* that won every one of its two or more passes and a visited node that
\* won none
C21_Witness ==
    /\ agent = "MCTSAgent"
    /\ pc = "loop"
    /\ turn >= 3
    /\ iterations >= 1
    /\ \E n \in 1 .. Len(nodes) : nodes[n].visits >= 2 /\ nodes[n].wins = nodes[n].visits
    /\ \E n \in 1 .. Len(nodes) : nodes[n].visits >= 1 /\ nodes[n].wins = 0

=============================================================================
